---- MODULE Spec2Model ----
(***************************************************************************)
(* The Pokemon card portfolio pipeline of Labs/Lab_04/pokemon_lab:         *)
(*   update_portfolio.py  (catalog normalisation and deduplication,        *)
(*                         inventory loading, the left merge, the write)   *)
(*   generate_summary.py  (the report read back from the artifact)         *)
(*   pipeline.py          (ETL step, then reporting step)                  *)
(*                                                                         *)
(* Text values are sequences of one-character strings, so that the string  *)
(* concatenations of the code ("-" joins) are real concatenations.  Prices *)
(* are integers.  A missing text cell (pd.NA / None) is NA, a missing      *)
(* number (float NaN) is NaN.                                              *)
(***************************************************************************)
EXTENDS Integers, Sequences, FiniteSets, TLC

----------------------------------------------------------------------------
(* Bounds of the explored inputs. *)

\* catalog documents listed in the lookup directory
MaxDocs == 2
\* elements of one catalog document's list
MaxRecs == 2
\* CSV files listed in the inventory directory
MaxFiles == 2
\* data rows over all the CSV files of one run
MaxRows == 2

----------------------------------------------------------------------------
(* Cell values. *)

\* pd.NA / None: a missing text cell
NA == <<"<NA>">>
\* float NaN: a missing number; no price is negative
NaN == -1

DASH == <<"-">>
NOT_FOUND == <<"N","O","T","_","F","O","U","N","D">>
\* str(float("nan")), what astype(str) makes of a missing cell
NanText == <<"n","a","n">>

Digit(d) == CASE d = 0 -> "0" [] d = 1 -> "1" [] d = 2 -> "2" [] d = 3 -> "3"
              [] d = 4 -> "4" [] d = 5 -> "5" [] d = 6 -> "6" [] d = 7 -> "7"
              [] d = 8 -> "8" [] d = 9 -> "9"

DigitChars == {Digit(d) : d \in 0..9}

DigitValue(c) == CHOOSE d \in 0..9 : Digit(d) = c

\* str(n) of a non-negative int: decimal digits, no leading zeros
RECURSIVE IntToText(_)
IntToText(n) == IF n < 10 THEN <<Digit(n)>>
                ELSE IntToText(n \div 10) \o <<Digit(n % 10)>>

\* int(text) of an all-digit text: leading zeros are lost
RECURSIVE TextToInt(_)
TextToInt(t) == IF Len(t) = 0 THEN 0
                ELSE 10 * TextToInt(SubSeq(t, 1, Len(t) - 1)) + DigitValue(t[Len(t)])

IsDigits(t) == Len(t) > 0 /\ \A i \in 1..Len(t) : t[i] \in DigitChars

\* Series.fillna(other): the missing cells take the other series' cell
FillNa(v, other) == IF v = NaN THEN other ELSE v

FillNaText(v, other) == IF v = NA THEN other ELSE v

\* Series.combine_first(other): the same cell-wise choice
CombineFirst(v, other) == FillNaText(v, other)

\* Series.astype(str) of a text cell
AsStr(v) == IF v = NA THEN NanText ELSE v

Range(s) == {s[i] : i \in 1..Len(s)}

RECURSIVE Concat(_)
Concat(ss) == IF Len(ss) = 0 THEN <<>> ELSE Head(ss) \o Concat(Tail(ss))

----------------------------------------------------------------------------
(* JSON values, as json.loads returns them: a tag and a payload. *)

JNull == [t |-> "null", v |-> 0]
JNum(n) == [t |-> "num", v |-> n]
JStr(s) == [t |-> "str", v |-> s]
JList(xs) == [t |-> "list", v |-> xs]
JDict(f) == [t |-> "dict", v |-> f]

\* a key the enclosing object does not have
Absent == [t |-> "absent", v |-> 0]

NoKeys == [k \in {} |-> JNull]

\* {key: value}, or {} when the value is Absent
Opt(key, value) == IF value.t = "absent" THEN NoKeys ELSE (key :> value)

\* text cell of a JSON leaf
TextCell(j) == IF j.t = "str" THEN j.v ELSE NA

\* numeric cell of a JSON leaf
NumCell(j) == IF j.t = "num" THEN j.v ELSE NaN

----------------------------------------------------------------------------
(* The catalog items the explored documents are made of. *)

SET1 == <<"S","1">>
SET2 == <<"S","2">>
BASE == <<"B","a","s","e">>
PIKACHU == <<"P","i","k","a">>
RAICHU == <<"R","a","i">>

\* item number (as the catalog prints it) and name: card S1-1 is quoted under
\* two names, card S1-01 under one
CatalogCards == {<<<<"1">>, PIKACHU>>, <<<<"1">>, RAICHU>>, <<<<"0","1">>, RAICHU>>}

\* tcgplayer.prices.holofoil.market and tcgplayer.prices.normal.market:
\* a price, null, or no such key
PriceShapes == {<<Absent, Absent>>, <<Absent, JNum(5)>>, <<JNull, JNum(5)>>,
                <<JNum(9), Absent>>, <<JNum(9), JNum(5)>>}

\* one card of the TCG API: id "<set>-<number>", nested set and tcgplayer.prices
Item(number, name, holo, normal) ==
    JDict(("id" :> JStr(SET1 \o DASH \o number))
       @@ ("name" :> JStr(name))
       @@ ("number" :> JStr(number))
       @@ ("set" :> JDict(("id" :> JStr(SET1)) @@ ("name" :> JStr(BASE))))
       @@ ("tcgplayer" :> JDict("prices" :> JDict(
              Opt("holofoil", IF holo.t = "absent" THEN Absent
                              ELSE JDict("market" :> holo))
           @@ Opt("normal", IF normal.t = "absent" THEN Absent
                            ELSE JDict("market" :> normal))))))

Items == {Item(c[1], c[2], p[1], p[2]) : c \in CatalogCards, p \in PriceShapes}

SeqsUpTo(S, n) == UNION {[1..k -> S] : k \in 1..n}

\* lists of item records
ItemLists == SeqsUpTo(Items, MaxRecs)

\* lists whose elements are not item records
ScalarLists == SeqsUpTo({JNum(1)}, MaxRecs)

----------------------------------------------------------------------------
(* pd.json_normalize(records, sep="."): one row per element, one column per *)
(* leaf, named by the path of keys to it.                                  *)

HOLO == <<"tcgplayer", "prices", "holofoil", "market">>
NORMAL == <<"tcgplayer", "prices", "normal", "market">>

RECURSIVE LeafPaths(_)
LeafPaths(d) ==
    UNION {IF d[k].t = "dict" THEN {<<k>> \o p : p \in LeafPaths(d[k].v)}
           ELSE {<<k>>} : k \in DOMAIN d}

RECURSIVE Leaf(_, _)
Leaf(d, path) == IF Len(path) = 1 THEN d[path[1]]
                 ELSE Leaf(d[path[1]].v, Tail(path))

\* the flattened row of one element; an element that is no dict has no leaf
FlatRow(x) == IF x.t = "dict" THEN [p \in LeafPaths(x.v) |-> Leaf(x.v, p)]
              ELSE [p \in {} |-> JNull]

json_normalize(records) ==
    LET rows == [i \in 1..Len(records) |-> FlatRow(records[i])]
    IN  [columns |-> UNION {DOMAIN rows[i] : i \in 1..Len(rows)}, rows |-> rows]

\* df.get(col, pd.Series(default, index=df.index)) of a numeric column, at row i
df_get(df, col, default, i) ==
    IF col \in df.columns
    THEN (IF col \in DOMAIN df.rows[i] THEN NumCell(df.rows[i][col]) ELSE NaN)
    ELSE default

\* s1.fillna(s2).fillna(0.0) at row i
card_market_value(df, i) ==
    FillNa(FillNa(df_get(df, HOLO, 0, i), df_get(df, NORMAL, 0, i)), 0)

\* a renamed text column at row i; a column the frame lacks is made of pd.NA
text_column(df, col, i) ==
    IF col \in df.columns /\ col \in DOMAIN df.rows[i]
    THEN TextCell(df.rows[i][col]) ELSE NA

required_cols == <<"card_id", "card_name", "card_number", "set_id", "set_name",
                   "card_market_value">>

\* df[required_cols] after the rename: the frame appended to all_lookup_df
lookup_frame(records) ==
    LET df == json_normalize(records)
    IN  [i \in 1..Len(records) |->
            [card_id |-> text_column(df, <<"id">>, i),
             card_name |-> text_column(df, <<"name">>, i),
             card_number |-> text_column(df, <<"number">>, i),
             set_id |-> text_column(df, <<"set", "id">>, i),
             set_name |-> text_column(df, <<"set", "name">>, i),
             card_market_value |-> card_market_value(df, i)]]

----------------------------------------------------------------------------
(* The deduplication of _load_lookup_data. *)

\* the orders DataFrame.sort_values(by="card_market_value", ascending=False)
\* can leave the rows indexed by S in: its default kind is "quicksort", which
\* is not stable, so rows of equal value come out in any order
RECURSIVE sort_orders(_, _)
sort_orders(rows, S) ==
    IF S = {} THEN {<<>>}
    ELSE LET top == {i \in S : \A j \in S :
                        rows[j].card_market_value <= rows[i].card_market_value}
         IN  UNION {{<<i>> \o rest : rest \in sort_orders(rows, S \ {i})} : i \in top}

\* a sort that leaves the rows as they are
sort_values_unsorted(rows) == {rows}

sort_values(rows) ==
    {[k \in 1..Len(rows) |-> rows[order[k]]] :
        order \in sort_orders(rows, 1..Len(rows))}

\* DataFrame.drop_duplicates(subset=["card_id"], keep="first")
RECURSIVE keep_first(_, _)
keep_first(rows, seen) ==
    IF Len(rows) = 0 THEN <<>>
    ELSE IF Head(rows).card_id \in seen THEN keep_first(Tail(rows), seen)
    ELSE <<Head(rows)>> \o keep_first(Tail(rows), seen \cup {Head(rows).card_id})

\* a drop_duplicates that drops nothing
drop_duplicates_keeps_all(rows) == rows

drop_duplicates(rows) == keep_first(rows, {})

\* the frames _load_lookup_data can return for the frames it collected
load_lookup_result(frames) ==
    IF Len(frames) = 0 THEN {<<>>}
    ELSE {drop_duplicates(sorted) : sorted \in sort_values(Concat(frames))}

----------------------------------------------------------------------------
(* CSV files and data frames.  A CSV file is a header and rows of text      *)
(* cells.  A frame has its columns in order, a dtype per column and rows    *)
(* that map each column to a cell.                                         *)

IndexOf(seq, x) == CHOOSE i \in 1..Len(seq) : seq[i] = x

\* pd.DataFrame(): no columns, no rows
EmptyFrame == [columns |-> <<>>, dtypes |-> [c \in {} |-> "object"], rows |-> <<>>]

\* DataFrame.empty: some axis has length 0
IsEmpty(df) == Len(df.columns) = 0 \/ Len(df.rows) = 0

\* pd.read_csv(filepath): a column of all-digit cells is read as integers
read_csv(csv) ==
    LET cols == csv.header
        column(c) == [r \in 1..Len(csv.rows) |-> csv.rows[r][IndexOf(cols, c)]]
        isInt(c) == Len(csv.rows) > 0 /\ \A r \in 1..Len(csv.rows) : IsDigits(column(c)[r])
    IN  [columns |-> cols,
         dtypes |-> [c \in Range(cols) |-> IF isInt(c) THEN "int64" ELSE "object"],
         rows |-> [r \in 1..Len(csv.rows) |->
                     [c \in Range(cols) |-> IF isInt(c) THEN TextToInt(column(c)[r])
                                            ELSE column(c)[r]]]]

\* the columns of the frames, in order of first appearance
RECURSIVE union_columns(_, _)
union_columns(frames, acc) ==
    IF Len(frames) = 0 THEN acc
    ELSE union_columns(Tail(frames),
             acc \o SelectSeq(Head(frames).columns, LAMBDA c : c \notin Range(acc)))

\* pd.concat(frames, ignore_index=True): the union of the columns, the rows in
\* order; a cell of a column its frame lacks is missing, which turns a column
\* of integers into floats.  Frames without rows do not decide a dtype.
concat(frames) ==
    LET cols == union_columns(frames, <<>>)
        full == SelectSeq(frames, LAMBDA f : Len(f.rows) > 0)
        dtype(c) ==
            IF \A k \in 1..Len(full) : c \in Range(full[k].columns)
                                       /\ full[k].dtypes[c] = "int64"
            THEN "int64"
            ELSE IF /\ \E k \in 1..Len(full) : c \in Range(full[k].columns)
                    /\ \A k \in 1..Len(full) : c \in Range(full[k].columns)
                                               => full[k].dtypes[c] = "int64"
            THEN "float64"
            ELSE "object"
        widen(f) == [r \in 1..Len(f.rows) |->
                       [c \in Range(cols) |->
                           IF c \in Range(f.columns) THEN f.rows[r][c]
                           ELSE IF dtype(c) = "object" THEN NA ELSE NaN]]
    IN  [columns |-> cols,
         dtypes |-> [c \in Range(cols) |-> dtype(c)],
         rows |-> Concat([k \in 1..Len(frames) |-> widen(frames[k])])]

\* Series.astype(str) of column c at row r
astype_str(df, c, r) ==
    LET v == df.rows[r][c]
    IN  CASE df.dtypes[c] = "int64" -> IntToText(v)
          [] df.dtypes[c] = "float64" ->
                IF v = NaN THEN NanText ELSE IntToText(v) \o <<".", "0">>
          [] OTHER -> AsStr(v)

\* df[name] = cells
with_column(df, name, dtype, cells) ==
    [columns |-> IF name \in Range(df.columns) THEN df.columns
                 ELSE Append(df.columns, name),
     dtypes |-> [c \in Range(df.columns) \cup {name} |->
                    IF c = name THEN dtype ELSE df.dtypes[c]],
     rows |-> [r \in 1..Len(df.rows) |->
                 [c \in Range(df.columns) \cup {name} |->
                     IF c = name THEN cells[r] ELSE df.rows[r][c]]]]

\* lines 87-94 of _load_inventory_data, for the frames read from the CSV
\* files: the frame returned, or the KeyError a missing column raises
load_inventory_result(inventory_data) ==
    IF Len(inventory_data) = 0 THEN [exc |-> "none", df |-> EmptyFrame]
    ELSE LET inventory_df == concat(inventory_data)
         IN  IF "set_id" \notin Range(inventory_df.columns)
                \/ "card_number" \notin Range(inventory_df.columns)
             THEN [exc |-> "KeyError", df |-> EmptyFrame]
             ELSE [exc |-> "none",
                   df |-> with_column(inventory_df, "card_id", "object",
                            [r \in 1..Len(inventory_df.rows) |->
                                astype_str(inventory_df, "set_id", r) \o DASH
                                \o astype_str(inventory_df, "card_number", r)])]

----------------------------------------------------------------------------
(* The merge and the write of update_portfolio. *)

empty_cols == <<"index", "card_name", "set_name", "card_market_value",
                "binder_name", "page_number", "slot_number">>

final_cols == <<"index", "binder_name", "page_number", "slot_number",
                "card_name", "card_number", "set_id", "set_name", "card_market_value">>

\* the left frame's columns handed to the merge
left_cols(inventory_df) ==
    SelectSeq(inventory_df.columns, LAMBDA c : c \notin {"card_name", "set_name"})

\* the right frame's columns besides the key
right_cols == <<"card_name", "set_name", "card_market_value">>

\* suffixes=("_inv", ""): a left column the right frame also has is renamed
inv_suffix(c) == CASE c = "card_name" -> "card_name_inv"
                   [] c = "set_name" -> "set_name_inv"
                   [] c = "card_market_value" -> "card_market_value_inv"

\* pd.merge(inventory_df[left_cols], lookup_df[[...]], on="card_id", how="left"):
\* each left row once per right row of its card_id, or once with missing cells
merge(inventory_df, lookup_rows) ==
    LET lcols == left_cols(inventory_df)
        name(c) == IF c \in Range(right_cols) THEN inv_suffix(c) ELSE c
        mcols == [k \in 1..Len(lcols) |-> name(lcols[k])] \o right_cols
        joined(r, right) ==
            [c \in Range(mcols) |->
                IF c \in Range(right_cols) THEN right[c]
                ELSE inventory_df.rows[r][CHOOSE l \in Range(lcols) : name(l) = c]]
        unmatched == [card_name |-> NA, set_name |-> NA, card_market_value |-> NaN]
        matches(r) == SelectSeq(lookup_rows,
                         LAMBDA x : x.card_id = inventory_df.rows[r]["card_id"])
        out(r) == IF Len(matches(r)) = 0 THEN <<joined(r, unmatched)>>
                  ELSE [k \in 1..Len(matches(r)) |-> joined(r, matches(r)[k])]
    IN  [columns |-> mcols,
         dtypes |-> [c \in Range(mcols) |->
                       IF c = "card_market_value" THEN "float64"
                       ELSE IF c \in Range(right_cols) THEN "object"
                       ELSE inventory_df.dtypes[CHOOSE l \in Range(lcols) : name(l) = c]],
         rows |-> Concat([r \in 1..Len(inventory_df.rows) |-> out(r)])]

\* s(df, col, default=pd.NA) at row r
s(df, col, default, r) == IF col \in Range(df.columns) THEN df.rows[r][col] ELSE default

\* lines 131-143: the name fallbacks and the value default
fill_defaults(merged_df) ==
    LET n == Len(merged_df.rows)
        names == with_column(merged_df, "card_name", "object",
                    [r \in 1..n |->
                        FillNaText(CombineFirst(s(merged_df, "card_name", NA, r),
                                                s(merged_df, "card_name_inv", NA, r)),
                                   NOT_FOUND)])
        sets == with_column(names, "set_name", "object",
                    [r \in 1..n |->
                        FillNaText(CombineFirst(s(merged_df, "set_name", NA, r),
                                                s(merged_df, "set_name_inv", NA, r)),
                                   NOT_FOUND)])
    IN  with_column(sets, "card_market_value", "float64",
            [r \in 1..n |-> FillNa(s(merged_df, "card_market_value", 0, r), 0)])

location_cols == <<"binder_name", "page_number", "slot_number">>

\* lines 145-149: binder-page-slot
with_index(df) ==
    with_column(df, "index", "object",
        [r \in 1..Len(df.rows) |->
            astype_str(df, "binder_name", r) \o DASH
            \o astype_str(df, "page_number", r) \o DASH
            \o astype_str(df, "slot_number", r)])

\* the text to_csv writes for a cell
csv_cell(df, c, r) ==
    LET v == df.rows[r][c]
    IN  CASE df.dtypes[c] = "int64" -> IntToText(v)
          [] df.dtypes[c] = "float64" ->
                IF v = NaN THEN <<>> ELSE IntToText(v) \o <<".", "0">>
          [] OTHER -> IF v = NA THEN <<>> ELSE v

\* df[cols].to_csv(output_file, index=False)
to_csv(df, cols) ==
    [header |-> cols,
     rows |-> [r \in 1..Len(df.rows) |->
                 [k \in 1..Len(cols) |-> csv_cell(df, cols[k], r)]]]

----------------------------------------------------------------------------
(* The inventory directories explored. *)

EEVEE == <<"E","e","v","e","e">>
JUNGLE == <<"J","u","n","g","l","e">>

\* the header of the lab's inventory files, with the advisory names
H_ADV == <<"card_name", "set_name", "set_id", "card_number",
           "binder_name", "page_number", "slot_number">>
\* only the required columns
H_MIN == <<"binder_name", "page_number", "slot_number", "set_id", "card_number">>
H_NO_SET == SelectSeq(H_ADV, LAMBDA c : c # "set_id")
H_NO_BINDER == SelectSeq(H_ADV, LAMBDA c : c # "binder_name")

Headers == {H_ADV, H_MIN, H_NO_SET, H_NO_BINDER}

\* set_id and card_number as the inventory files write them
InventoryCards == {<<SET1, <<"1">>>>, <<SET1, <<"0","1">>>>, <<SET2, <<"1">>>>}

\* the k-th file: binder "B<k>", page 1, one card per slot
CsvFile(k, header, cards) ==
    LET cell(i, c) == CASE c = "card_name" -> EEVEE
                        [] c = "set_name" -> JUNGLE
                        [] c = "set_id" -> cards[i][1]
                        [] c = "card_number" -> cards[i][2]
                        [] c = "binder_name" -> <<"B">> \o IntToText(k)
                        [] c = "page_number" -> <<"1">>
                        [] c = "slot_number" -> IntToText(i)
    IN  [header |-> header,
         rows |-> [i \in 1..Len(cards) |-> [j \in 1..Len(header) |-> cell(i, header[j])]]]

CardSeqs == {<<>>} \cup SeqsUpTo(InventoryCards, MaxRows)

RECURSIVE TotalLen(_)
TotalLen(ss) == IF Len(ss) = 0 THEN 0 ELSE Len(Head(ss)) + TotalLen(Tail(ss))

\* the CSV files of a directory, in listing order; a file without data rows
\* has the lab's header
InventoryDirs ==
    {[k \in 1..n |-> CsvFile(k, hs[k], cs[k])] :
        <<n, hs, cs>> \in
          {x \in UNION {{<<m, h, c>> : h \in [1..m -> Headers], c \in [1..m -> CardSeqs]}
                           : m \in 0..MaxFiles} :
              /\ TotalLen(x[3]) <= MaxRows
              /\ \A k \in 1..x[1] : Len(x[3][k]) = 0 => x[2][k] = H_ADV}}

----------------------------------------------------------------------------
(* The artifact on disk. *)

NoFile == [exists |-> FALSE, header |-> <<>>, rows |-> <<>>]

OnDisk(csv) == [exists |-> TRUE, header |-> csv.header, rows |-> csv.rows]

\* an artifact an earlier run of update_portfolio left
OldArtifact ==
    OnDisk([header |-> final_cols,
            rows |-> << << <<"B","9","-","1","-","1">>, <<"B","9">>, <<"1">>, <<"1">>,
                           PIKACHU, <<"1">>, SET1, BASE, <<"9",".","0">> >> >>])

\* an artifact of an earlier run over an empty inventory
OldEmptyArtifact == OnDisk([header |-> empty_cols, rows |-> <<>>])

\* an artifact the variant in pokemon_lab/pokemon_lab left: every column of the
\* merged frame, for an inventory without a card_name column
LegacyArtifact ==
    OnDisk([header |-> <<"set_id", "card_number", "binder_name", "page_number",
                         "slot_number", "card_id", "card_name", "set_name",
                         "card_market_value", "index">>,
            rows |-> << << SET1, <<"1">>, <<"B","9">>, <<"1">>, <<"1">>,
                           <<"S","1","-","1">>, PIKACHU, BASE, <<"9",".","0">>,
                           <<"B","9","-","1","-","1">> >> >>])

----------------------------------------------------------------------------
(* The state. *)

VARIABLES
    mode,            \* "pipeline": pipeline.py; "report": generate_summary.py alone
    pc,              \* where the run is
    prior,           \* the artifact as it was before the run
    artifact,        \* card_portfolio.csv
    nread,           \* files of the lookup directory gone through
    file,            \* what the last file of the lookup loop was
    records,         \* the records of the last JSON document (line 30)
    all_lookup_df,   \* the frames collected by _load_lookup_data
    lookup_df,       \* the rows _load_lookup_data returns
    inventory_data,  \* the frames read by _load_inventory_data
    inventory_df,    \* the frame _load_inventory_data returns
    stderr,          \* messages on the error stream
    stdout,          \* messages on the output stream
    exc              \* the exception that ended the run, or "none"

vars == <<mode, pc, prior, artifact, nread, file, records, all_lookup_df, lookup_df,
          inventory_data, inventory_df, stderr, stdout, exc>>

etl_locals == <<nread, file, records, all_lookup_df, lookup_df, inventory_data, inventory_df>>

Init ==
    /\ \/ mode = "pipeline" /\ artifact = OldArtifact
       \/ mode = "report"
          /\ artifact \in {NoFile, OldEmptyArtifact, LegacyArtifact}
    /\ prior = artifact
    /\ pc = "start"
    /\ nread = 0
    /\ file = "none"
    /\ records = JNull
    /\ all_lookup_df = <<>>
    /\ lookup_df = <<>>
    /\ inventory_data = <<>>
    /\ inventory_df = EmptyFrame
    /\ stderr = {}
    /\ stdout = {}
    /\ exc = "none"

----------------------------------------------------------------------------
(* pipeline.py: the ETL step. *)

\* run_production_pipeline up to the call of update_portfolio.main
PipelineStart ==
    /\ mode = "pipeline" /\ pc = "start"
    /\ stderr' = stderr \cup {"pipeline_start", "step_1"}
    /\ pc' = "lookup_loop"
    /\ UNCHANGED <<mode, prior, artifact, etl_locals, stdout, exc>>

\* the value line 30 takes the records from
records_of(d) == IF d.t = "dict" /\ "data" \in DOMAIN d.v THEN d.v["data"] ELSE d

\* line 31: something to normalise
has_records(d) == records_of(d).t = "list" /\ Len(records_of(d).v) > 0

\* documents that parse but hold no list of elements
NoListDocs == {JNum(7), JDict("error" :> JStr(NOT_FOUND)), JDict("data" :> JNull),
               JList(<<>>), JDict("data" :> JList(<<>>))}

\* documents that hold a list, bare or under "data"
ListDocs == {JList(xs) : xs \in ItemLists \cup ScalarLists}
            \cup {JDict("data" :> JList(xs)) : xs \in ItemLists \cup ScalarLists}

\* a file of the listing that is skipped before it is parsed: another
\* extension, open() fails, nothing but blanks, json.loads fails
LookupSkipFile ==
    /\ pc = "lookup_loop" /\ nread < MaxDocs
    /\ \E kind \in {"not_json_name", "unreadable", "blank", "invalid_json"} :
          file' = kind
    /\ nread' = nread + 1
    /\ UNCHANGED <<mode, pc, prior, artifact, records, all_lookup_df, lookup_df,
                   inventory_data, inventory_df, stderr, stdout, exc>>

\* a document whose records are no list, or an empty one
LookupSkipDocument ==
    /\ pc = "lookup_loop" /\ nread < MaxDocs
    /\ \E d \in NoListDocs :
          /\ ~has_records(d)
          /\ records' = records_of(d)
    /\ file' = "json"
    /\ nread' = nread + 1
    /\ UNCHANGED <<mode, pc, prior, artifact, all_lookup_df, lookup_df,
                   inventory_data, inventory_df, stderr, stdout, exc>>

\* lines 34-63: a document with a list is normalised and its frame appended
LookupAppend ==
    /\ pc = "lookup_loop" /\ nread < MaxDocs
    /\ \E d \in ListDocs :
          /\ has_records(d)
          /\ records' = records_of(d)
          /\ all_lookup_df' = Append(all_lookup_df, lookup_frame(records_of(d).v))
    /\ file' = "json"
    /\ nread' = nread + 1
    /\ UNCHANGED <<mode, pc, prior, artifact, lookup_df,
                   inventory_data, inventory_df, stderr, stdout, exc>>

\* lines 65-72: the listing is exhausted; concat, sort, drop duplicates
LookupFinish ==
    /\ pc = "lookup_loop"
    /\ \E rows \in load_lookup_result(all_lookup_df) : lookup_df' = rows
    /\ pc' = "lookup_done"
    /\ file' = "none"
    /\ records' = JNull
    /\ UNCHANGED <<mode, prior, artifact, nread, all_lookup_df,
                   inventory_data, inventory_df, stderr, stdout, exc>>

\* line 73 and line 102: the frame is returned to update_portfolio
LookupReturn ==
    /\ pc = "lookup_done"
    /\ pc' = "lookup_returned"
    /\ all_lookup_df' = <<>>
    /\ UNCHANGED <<mode, prior, artifact, nread, file, records, lookup_df,
                   inventory_data, inventory_df, stderr, stdout, exc>>

\* line 103: _load_inventory_data over the CSV files of the directory
LoadInventory ==
    /\ pc = "lookup_returned"
    /\ \E dir \in InventoryDirs :
          LET frames == [k \in 1..Len(dir) |-> read_csv(dir[k])]
              res == load_inventory_result(frames)
          IN  /\ inventory_data' = frames
              /\ inventory_df' = res.df
              /\ exc' = res.exc
              /\ pc' = IF res.exc = "none" THEN "inventory_loaded" ELSE "crashed"
    /\ UNCHANGED <<mode, prior, artifact, nread, file, records, all_lookup_df, lookup_df,
                   stderr, stdout>>

\* lines 105-117: the empty inventory
WriteEmpty ==
    /\ pc = "inventory_loaded"
    /\ IsEmpty(inventory_df)
    /\ stderr' = stderr \cup {"inventory_empty"}
    /\ artifact' = OnDisk(to_csv(EmptyFrame, empty_cols))
    /\ pc' = "etl_done"
    /\ UNCHANGED <<mode, prior, etl_locals, stdout, exc>>

\* the frame lines 119-149 build
portfolio_frame(inv, lookup_rows) == with_index(fill_defaults(merge(inv, lookup_rows)))

\* the columns lines 145-156 read
written_from(inv) ==
    Range(location_cols) \subseteq Range(left_cols(inv))
    /\ Range(final_cols) \subseteq Range(left_cols(inv)) \cup Range(right_cols) \cup {"index"}

\* lines 119-157: merge, fill, index, project, write
WritePortfolio ==
    /\ pc = "inventory_loaded"
    /\ ~IsEmpty(inventory_df)
    /\ written_from(inventory_df)
    /\ artifact' = OnDisk(to_csv(portfolio_frame(inventory_df, lookup_df), final_cols))
    /\ stdout' = stdout \cup {"portfolio_updated"}
    /\ pc' = "etl_done"
    /\ UNCHANGED <<mode, prior, etl_locals, stderr, exc>>

\* lines 145-156 with a column missing: KeyError before to_csv
WriteKeyError ==
    /\ pc = "inventory_loaded"
    /\ ~IsEmpty(inventory_df)
    /\ ~written_from(inventory_df)
    /\ exc' = "KeyError"
    /\ pc' = "crashed"
    /\ UNCHANGED <<mode, prior, artifact, etl_locals, stderr, stdout>>

----------------------------------------------------------------------------
(* generate_summary.py, alone or as the pipeline's reporting step. *)

\* generate_summary is entered: by the pipeline after the ETL step, or alone
AtReport == \/ mode = "pipeline" /\ pc = "etl_done"
            \/ mode = "report" /\ pc = "start"

\* the frames of update_portfolio are gone when it has returned
DropLocals ==
    /\ nread' = 0
    /\ file' = "none"
    /\ records' = JNull
    /\ all_lookup_df' = <<>>
    /\ lookup_df' = <<>>
    /\ inventory_data' = <<>>
    /\ inventory_df' = EmptyFrame

ReportStderr == IF mode = "pipeline" THEN stderr \cup {"step_2"} ELSE stderr

\* the columns lines 25-37 read
summary_cols == {"card_market_value", "card_name", "card_id"}

\* lines 12-14: no artifact, exit status 1
SummaryNoFile ==
    /\ AtReport
    /\ ~artifact.exists
    /\ stderr' = ReportStderr \cup {"portfolio_not_found"}
    /\ exc' = "SystemExit(1)"
    /\ pc' = "exited"
    /\ DropLocals
    /\ UNCHANGED <<mode, prior, artifact, stdout>>

\* lines 17-22: an artifact without data rows
SummaryEmpty ==
    /\ AtReport
    /\ artifact.exists
    /\ IsEmpty(read_csv(artifact))
    /\ stderr' = ReportStderr
    /\ stdout' = stdout \cup {"portfolio_empty"}
    /\ pc' = "report_done"
    /\ DropLocals
    /\ UNCHANGED <<mode, prior, artifact, exc>>

\* lines 24-38: the report
SummaryReport ==
    /\ AtReport
    /\ artifact.exists
    /\ ~IsEmpty(read_csv(artifact))
    /\ summary_cols \subseteq Range(read_csv(artifact).columns)
    /\ stderr' = ReportStderr
    /\ stdout' = stdout \cup {"summary_report"}
    /\ pc' = "report_done"
    /\ DropLocals
    /\ UNCHANGED <<mode, prior, artifact, exc>>

\* lines 24-38 with a column the artifact lacks: KeyError
SummaryKeyError ==
    /\ AtReport
    /\ artifact.exists
    /\ ~IsEmpty(read_csv(artifact))
    /\ ~(summary_cols \subseteq Range(read_csv(artifact).columns))
    /\ stderr' = ReportStderr
    /\ exc' = "KeyError"
    /\ pc' = "crashed"
    /\ DropLocals
    /\ UNCHANGED <<mode, prior, artifact, stdout>>

\* pipeline.py line 23
PipelineComplete ==
    /\ mode = "pipeline" /\ pc = "report_done"
    /\ stderr' = stderr \cup {"pipeline_completed"}
    /\ pc' = "completed"
    /\ UNCHANGED <<mode, prior, artifact, etl_locals, stdout, exc>>

Next ==
    \/ PipelineStart
    \/ LookupSkipFile
    \/ LookupSkipDocument
    \/ LookupAppend
    \/ LookupFinish
    \/ LookupReturn
    \/ LoadInventory
    \/ WriteEmpty
    \/ WritePortfolio
    \/ WriteKeyError
    \/ SummaryNoFile
    \/ SummaryEmpty
    \/ SummaryReport
    \/ SummaryKeyError
    \/ PipelineComplete

Spec == Init /\ [][Next]_vars

----------------------------------------------------------------------------
(* Properties. *)

Col(csv, name) == IndexOf(csv.header, name)

Max(S) == CHOOSE x \in S : \A y \in S : y <= x

\* the rows collected from all the documents, in input order
RawRows == Concat(all_lookup_df)

\* the columns every inventory source must supply
RequiredInventoryCols == {"binder_name", "page_number", "slot_number", "set_id", "card_number"}

\* update_portfolio has written the portfolio of a non-empty inventory
PortfolioWritten == pc = "etl_done" /\ ~IsEmpty(inventory_df)

\* C1: row-count preservation.  For every non-empty inventory of N rows that
\* supplies the required columns, and every catalog, update_portfolio writes an
\* artifact of exactly N data rows, the r-th for the r-th inventory row: the
\* left join neither drops nor duplicates an inventory row.
C1_RowCountPreserved ==
    /\ PortfolioWritten =>
          /\ artifact.exists
          /\ Len(artifact.rows) = Len(inventory_df.rows)
          /\ \A r \in 1..Len(inventory_df.rows) : \A c \in Range(location_cols) :
                artifact.rows[r][Col(artifact, c)] = csv_cell(inventory_df, c, r)
    /\ (pc = "crashed" /\ Len(inventory_data) > 0) =>
          ~(RequiredInventoryCols \subseteq Range(concat(inventory_data).columns))

\* C1 witness: two inventory rows of the same card_id, matched by a catalog of
\* two items, have been written
C1_Witness ==
    /\ PortfolioWritten
    /\ Len(inventory_df.rows) = 2
    /\ inventory_df.rows[1]["card_id"] = inventory_df.rows[2]["card_id"]
    /\ Len(lookup_df) = 2
    /\ \E k \in 1..2 : lookup_df[k].card_id = inventory_df.rows[1]["card_id"]

\* C2: catalog deduplication.  The frame _load_lookup_data returns holds
\* exactly one record per distinct card_id of the collected rows, and that
\* record's card_market_value is the maximum among the rows of that card_id.
C2_OnePerIdWithMaxValue ==
    pc = "lookup_done" =>
       /\ {lookup_df[i].card_id : i \in 1..Len(lookup_df)}
             = {RawRows[k].card_id : k \in 1..Len(RawRows)}
       /\ \A i, j \in 1..Len(lookup_df) :
             lookup_df[i].card_id = lookup_df[j].card_id => i = j
       /\ \A i \in 1..Len(lookup_df) :
             /\ lookup_df[i] \in Range(RawRows)
             /\ lookup_df[i].card_market_value =
                   Max({RawRows[k].card_market_value : k \in
                          {k \in 1..Len(RawRows) : RawRows[k].card_id = lookup_df[i].card_id}})

\* C2 witness: two documents quote the same card at different values
C2_Witness ==
    /\ pc = "lookup_done"
    /\ Len(all_lookup_df) = 2
    /\ \E a \in Range(all_lookup_df[1]) : \E b \in Range(all_lookup_df[2]) :
          a.card_id = b.card_id /\ a.card_market_value < b.card_market_value

\* C3: tie-break on equal values.  Of several rows of one card_id with equal
\* (maximal) market value, the returned record is the first in input order.
C3_FirstSeenKept ==
    pc = "lookup_done" =>
       \A i \in 1..Len(lookup_df) :
          LET same == {k \in 1..Len(RawRows) : RawRows[k].card_id = lookup_df[i].card_id}
              best == {k \in same : \A l \in same :
                          RawRows[l].card_market_value <= RawRows[k].card_market_value}
          IN  lookup_df[i] = RawRows[CHOOSE k \in best : \A l \in best : k <= l]

\* the price a record quotes at a path: the number there, or none
QuotedPrice(x, path) ==
    IF x.t = "dict" /\ path \in LeafPaths(x.v) THEN NumCell(Leaf(x.v, path)) ELSE NaN

\* holofoil if present and non-null, else normal if present and non-null, else 0
SelectedPrice(x) ==
    IF QuotedPrice(x, HOLO) # NaN THEN QuotedPrice(x, HOLO)
    ELSE IF QuotedPrice(x, NORMAL) # NaN THEN QuotedPrice(x, NORMAL)
    ELSE 0

\* the last document of the loop was normalised and its frame appended
JustAppended == pc = "lookup_loop" /\ file = "json" /\ records.t = "list"
                /\ Len(records.v) > 0

\* C4: market value selection.  For every record of every normalised document
\* card_market_value is the holofoil market price if present and non-null, else
\* the normal market price if present and non-null, else 0.0.
C4_MarketValueSelected ==
    JustAppended =>
       \A i \in 1..Len(records.v) :
          all_lookup_df[Len(all_lookup_df)][i].card_market_value = SelectedPrice(records.v[i])

\* the catalog rows of an inventory row's card_id
CatalogMatches(r) ==
    SelectSeq(lookup_df, LAMBDA x : x.card_id = inventory_df.rows[r]["card_id"])

\* catalog value, else the advisory value of the inventory row, else NOT_FOUND
ResolvedName(r, col) ==
    IF Len(CatalogMatches(r)) > 0 /\ CatalogMatches(r)[1][col] # NA
    THEN CatalogMatches(r)[1][col]
    ELSE IF col \in Range(inventory_df.columns) /\ inventory_df.rows[r][col] # NA
    THEN inventory_df.rows[r][col]
    ELSE NOT_FOUND

\* C5: name resolution order.  card_name and set_name of every output row are
\* the catalog value when matched and non-null, else the advisory value on the
\* inventory row when present and non-null, else NOT_FOUND; the market value of
\* an unmatched row is 0.0 and no output cell of the three is null.
C5_NameResolution ==
    PortfolioWritten =>
       \A r \in 1..Len(artifact.rows) :
          /\ artifact.rows[r][Col(artifact, "card_name")] = ResolvedName(r, "card_name")
          /\ artifact.rows[r][Col(artifact, "set_name")] = ResolvedName(r, "set_name")
          /\ Len(CatalogMatches(r)) = 0 =>
                artifact.rows[r][Col(artifact, "card_market_value")] = <<"0", ".", "0">>
          /\ \A c \in {"card_name", "set_name", "card_market_value"} :
                artifact.rows[r][Col(artifact, c)] # <<>>

\* C6: malformed inventory is fatal.  If any inventory source file lacks a
\* required column the run fails, and the artifact is as it was before the run.
C6_MalformedInventoryFatal ==
    (pc \in {"inventory_loaded", "etl_done", "crashed"}
     /\ \E k \in 1..Len(inventory_data) :
           ~(RequiredInventoryCols \subseteq Range(inventory_data[k].columns)))
    => (pc # "etl_done" /\ artifact = prior)

\* C7: empty-inventory run.  With no inventory source file the run raises
\* nothing, warns on the error stream and writes an artifact without data rows
\* whose header is the header written for a non-empty inventory (final_cols).
C7_EmptyInventoryHeader ==
    (pc \in {"inventory_loaded", "etl_done", "crashed"} /\ Len(inventory_data) = 0
     /\ mode = "pipeline" /\ "step_2" \notin stderr)
    => /\ exc = "none"
       /\ pc = "etl_done" =>
             /\ "inventory_empty" \in stderr
             /\ artifact.exists
             /\ artifact.rows = <<>>
             /\ artifact.header = to_csv(EmptyFrame, final_cols).header

\* the PortfolioEntry columns: location key, display fields, physical location
PortfolioEntryCols == <<"index", "card_name", "set_name", "card_market_value",
                        "binder_name", "page_number", "slot_number">>

\* C8: final projection.  The artifact of a non-empty inventory has exactly
\* the PortfolioEntry columns, in their order, and no other column.
C8_FinalProjection == PortfolioWritten => artifact.header = PortfolioEntryCols

\* C9: reporting after ETL.  generate_summary needs only a market-value and a
\* name column of an artifact with rows: whenever the pipeline's ETL step has
\* written an artifact with at least one row, the reporting step ends without
\* error (so the pipeline completes); on an artifact without rows it prints a
\* notice, on an absent artifact it exits non-zero.
C9_ReportAfterEtl ==
    /\ (mode = "pipeline" /\ "step_2" \in stderr /\ Len(artifact.rows) > 0) =>
          (pc \in {"report_done", "completed"} /\ exc = "none")
    /\ (mode = "report" /\ pc # "start" /\ artifact.exists /\ Len(artifact.rows) > 0
        /\ {"card_market_value", "card_name"} \subseteq Range(artifact.header)) =>
          (pc = "report_done" /\ exc = "none")
    /\ (pc # "start" /\ "step_1" \notin stderr /\ artifact.exists /\ artifact.rows = <<>>) =>
          (pc = "report_done" /\ "portfolio_empty" \in stdout)
    /\ (pc # "start" /\ "step_1" \notin stderr /\ ~artifact.exists) =>
          (pc = "exited" /\ exc = "SystemExit(1)")

\* a document that is no list of item records
BadDocument(f, recs) ==
    \/ f # "json"
    \/ recs.t # "list"
    \/ \E i \in 1..Len(recs.v) : recs.v[i].t # "dict"

\* C10: malformed catalog tolerance.  A document that is empty, unreadable, not
\* valid JSON, no list, or a list of elements that are not item records is
\* skipped: it raises nothing and adds no record to the collected frames.
C10_BadDocumentSkipped ==
    [][(pc = "lookup_loop" /\ pc' = "lookup_loop" /\ BadDocument(file', records'))
          => (all_lookup_df' = all_lookup_df /\ exc' = "none")]_vars

\* the directories whose CSV files read_csv turns into the frames loaded
SourceDirs ==
    {dir \in InventoryDirs : inventory_data = [k \in 1..Len(dir) |-> read_csv(dir[k])]}

\* the text of a column in the i-th data row of a CSV file
Written(csv, i, c) == csv.rows[i][IndexOf(csv.header, c)]

\* the row of the concatenated inventory that the i-th row of the k-th file is
RowOf(dir, k, i) == TotalLen([j \in 1..(k - 1) |-> dir[j].rows]) + i

\* the catalog records whose card_id is the given text
Quotes(id) == {j \in 1..Len(lookup_df) : lookup_df[j].card_id = id}

\* C11: end-to-end match.  For every inventory row whose set_id and
\* card_number, as the inventory file writes them, joined by "-" equal a
\* card_id of the catalog, the output row of that inventory row has the index
\* "<binder>-<page>-<slot>" and the card_market_value the catalog holds for
\* that card_id (the highest value collected for it).
C11_EndToEndMatch ==
    PortfolioWritten =>
       \A dir \in SourceDirs : \A k \in 1..Len(dir) : \A i \in 1..Len(dir[k].rows) :
          LET id == Written(dir[k], i, "set_id") \o DASH \o Written(dir[k], i, "card_number")
              out == artifact.rows[RowOf(dir, k, i)]
          IN  (RequiredInventoryCols \subseteq Range(dir[k].header) /\ Quotes(id) # {}) =>
                 /\ out[Col(artifact, "index")] =
                       Written(dir[k], i, "binder_name") \o DASH
                       \o Written(dir[k], i, "page_number") \o DASH
                       \o Written(dir[k], i, "slot_number")
                 /\ out[Col(artifact, "card_market_value")] =
                       IntToText(Max({lookup_df[j].card_market_value : j \in Quotes(id)}))
                       \o <<".", "0">>

====
